---- MODULE Spec2Model ----
(***************************************************************************)
(* Model of Stiefel_log_general_metric/SciPy/Stiefel_diff_tools.py:        *)
(* derivatives of the thin QR factorisation, of the matrix exponential, of *)
(* the Stiefel exponential and of the singular value decomposition.        *)
(*                                                                         *)
(* Numbers are exact rationals <<num, den>> extended with the IEEE         *)
(* non-finite values numpy produces on a division by zero (+-inf, nan).    *)
(* Matrices are sequences of rows.  The LAPACK routines behind linalg.qr   *)
(* and linalg.solve_triangular are modelled by what they return; the       *)
(* transcendental linalg.expm is an uninterpreted term.                    *)
(***************************************************************************)
EXTENDS Integers, Sequences, FiniteSets, TLC

VARIABLES pc, inp, mem, out, calls, loc

vars == <<pc, inp, mem, out, calls, loc>>

-----------------------------------------------------------------------------
(* Scalars: <<n, d>> with d > 0 is n/d in lowest terms; <<1, 0>> is +inf,  *)
(* <<-1, 0>> is -inf and <<0, 0>> is nan.                                  *)

Abs(i) == IF i < 0 THEN -i ELSE i

Sgn(i) == IF i < 0 THEN -1 ELSE IF i > 0 THEN 1 ELSE 0

RECURSIVE GCD(_, _)
GCD(a, b) == IF b = 0 THEN a ELSE GCD(b, a % b)

Norm(n, d) ==
    IF d = 0 THEN <<Sgn(n), 0>>
    ELSE LET g == GCD(Abs(n), Abs(d))
         IN  <<Sgn(d) * Sgn(n) * (Abs(n) \div g), Abs(d) \div g>>

Rat(i) == <<i, 1>>
Zero == <<0, 1>>
One == <<1, 1>>
Half == <<1, 2>>
NaN == <<0, 0>>

IsFinite(x) == x[2] # 0
IsNaN(x) == x = NaN

RNeg(x) == <<-x[1], x[2]>>

RAdd(x, y) ==
    IF x[2] = 1 /\ y[2] = 1 THEN <<x[1] + y[1], 1>>
    ELSE IF IsFinite(x) /\ IsFinite(y) THEN Norm(x[1] * y[2] + y[1] * x[2], x[2] * y[2])
    ELSE IF IsNaN(x) \/ IsNaN(y) THEN NaN
    ELSE IF IsFinite(x) THEN y
    ELSE IF IsFinite(y) THEN x
    ELSE IF x = y THEN x ELSE NaN

RSub(x, y) == RAdd(x, RNeg(y))

RMul(x, y) ==
    IF x[2] = 1 /\ y[2] = 1 THEN <<x[1] * y[1], 1>>
    ELSE IF IsFinite(x) /\ IsFinite(y) THEN Norm(x[1] * y[1], x[2] * y[2])
    ELSE IF IsNaN(x) \/ IsNaN(y) \/ x = Zero \/ y = Zero THEN NaN
    ELSE <<Sgn(x[1]) * Sgn(y[1]), 0>>

(* numpy float64 division: x/0 is +-inf (nan for 0/0), never an exception *)
RDiv(x, y) ==
    IF IsNaN(x) \/ IsNaN(y) THEN NaN
    ELSE IF ~IsFinite(y) THEN (IF IsFinite(x) THEN Zero ELSE NaN)
    ELSE IF ~IsFinite(x) THEN <<x[1] * (IF y[1] < 0 THEN -1 ELSE 1), 0>>
    ELSE Norm(x[1] * y[2], x[2] * y[1])

ISqrt(n) == CHOOSE k \in 0..n : k * k = n

RSqrt(x) == <<ISqrt(x[1]), ISqrt(x[2])>>

-----------------------------------------------------------------------------
(* Dense matrices (numpy arrays of shape (n, p)) as sequences of rows.     *)

Rows(M) == Len(M)
Cols(M) == Len(M[1])

(* arrays are built entry by entry, as evaluated tuples *)
RECURSIVE Filled(_, _)
Filled(g, n) == IF n = 0 THEN <<>> ELSE Append(Filled(g, n - 1), g[n])

Vec(n, f(_)) == Filled([i \in 1..n |-> f(i)], n)

Mat(n, p, f(_, _)) == Vec(n, LAMBDA i : Vec(p, LAMBDA j : f(i, j)))

zeros(n, p) == Mat(n, p, LAMBDA i, j : Zero)

identity(p) == Mat(p, p, LAMBDA i, j : IF i = j THEN One ELSE Zero)

diag(s) == Mat(Len(s), Len(s), LAMBDA i, j : IF i = j THEN s[i] ELSE Zero)

transpose(M) == Mat(Cols(M), Rows(M), LAMBDA j, i : M[i][j])

RECURSIVE DotTo(_, _, _, _, _)
DotTo(A, B, i, j, k) ==
    IF k = 0 THEN Zero
    ELSE RAdd(DotTo(A, B, i, j, k - 1), RMul(A[i][k], B[k][j]))

dot(A, B) == Mat(Rows(A), Cols(B), LAMBDA i, j : DotTo(A, B, i, j, Cols(A)))

MAdd(A, B) == Mat(Rows(A), Cols(A), LAMBDA i, j : RAdd(A[i][j], B[i][j]))

MSub(A, B) == Mat(Rows(A), Cols(A), LAMBDA i, j : RSub(A[i][j], B[i][j]))

MScale(c, A) == Mat(Rows(A), Cols(A), LAMBDA i, j : RMul(c, A[i][j]))

(* M[:, a:b] in numpy's zero-based half-open indexing *)
ColSlice(M, a, b) == Mat(Rows(M), b - a, LAMBDA i, j : M[i][a + j])

Column(M, j) == Vec(Rows(M), LAMBDA i : M[i][j])

RECURSIVE VDotTo(_, _, _)
VDotTo(u, w, k) ==
    IF k = 0 THEN Zero ELSE RAdd(VDotTo(u, w, k - 1), RMul(u[k], w[k]))

VDot(u, w) == VDotTo(u, w, Len(u))

(* the loops "for i in range(n): for j in range(i): M[i,j] = 0.0" *)
ZeroStrictLower(M) ==
    Mat(Rows(M), Cols(M), LAMBDA i, j : IF j < i THEN Zero ELSE M[i][j])

IsUpperTriangular(M) == \A i \in 1..Rows(M) : \A j \in 1..Cols(M) : j < i => M[i][j] = Zero

IsSkew(M) ==
    /\ Rows(M) = Cols(M)
    /\ \A i \in 1..Rows(M) : \A j \in 1..Cols(M) : M[i][j] = RNeg(M[j][i])

-----------------------------------------------------------------------------
(* scipy.linalg.qr(A0, mode='economic'): the thin factorisation A0 = Q R,  *)
(* Q with orthonormal columns and R upper triangular, column by column.    *)
(* LAPACK fixes the sign of each diagonal entry of R (sg).  A column that  *)
(* depends on the earlier ones leaves a pivot that is exactly zero when    *)
(* the column is zero or the earlier columns of Q are exact in binary64    *)
(* (dyadic entries), and otherwise either zero or a residue of rounding,   *)
(* as the build's arithmetic has it (rnd); Q is then completed by a unit   *)
(* vector orthogonal to the earlier columns.                               *)

Residue == <<1, 1024>>

Unit(n, k) == Vec(n, LAMBDA i : IF i = k THEN One ELSE Zero)

UnitVecs(n) ==
    { Unit(n, k) : k \in 1..n }
    \cup { Vec(n, LAMBDA i : IF i = 1 THEN <<-4, 5>> ELSE IF i = 2 THEN <<3, 5>> ELSE Zero) }

Completion(qs, n) ==
    CHOOSE u \in UnitVecs(n) : \A i \in 1..Len(qs) : VDot(qs[i], u) = Zero

RECURSIVE Deflate(_, _, _, _)
Deflate(a, qs, proj, k) ==
    IF k = 0 THEN a
    ELSE Vec(Len(a), LAMBDA i :
             RSub(Deflate(a, qs, proj, k - 1)[i], RMul(proj[k], qs[k][i])))

RECURSIVE PowerOfTwo(_)
PowerOfTwo(d) == d = 1 \/ (d % 2 = 0 /\ PowerOfTwo(d \div 2))

Exact(qs) == \A i \in 1..Len(qs) : \A k \in 1..Len(qs[i]) : PowerOfTwo(qs[i][k][2])

Pivot(qs, a, w, s, rnd) ==
    IF VDot(w, w) # Zero THEN RMul(Rat(s), RSqrt(VDot(w, w)))
    ELSE IF rnd /\ VDot(a, a) # Zero /\ ~Exact(qs) THEN Residue
    ELSE Zero

QRPut(prev, proj, w, piv, j, p) ==
    [q |-> Append(prev.q,
                  IF VDot(w, w) # Zero THEN Vec(Len(w), LAMBDA i : RDiv(w[i], piv))
                  ELSE Completion(prev.q, Len(w))),
     r |-> Append(prev.r,
                  Vec(p, LAMBDA i : IF i < j THEN proj[i] ELSE IF i = j THEN piv ELSE Zero))]

QRDeflated(prev, a, proj, w, j, p, sg, rnd) ==
    QRPut(prev, proj, w, Pivot(prev.q, a, w, sg[j], rnd), j, p)

QRProjected(prev, a, proj, j, p, sg, rnd) ==
    QRDeflated(prev, a, proj, Deflate(a, prev.q, proj, j - 1), j, p, sg, rnd)

QRAppend(prev, a, j, p, sg, rnd) ==
    QRProjected(prev, a, Vec(j - 1, LAMBDA i : VDot(prev.q[i], a)), j, p, sg, rnd)

RECURSIVE QRColumns(_, _, _, _)
QRColumns(A0, j, sg, rnd) ==
    IF j = 0 THEN [q |-> <<>>, r |-> <<>>]
    ELSE QRAppend(QRColumns(A0, j - 1, sg, rnd), Column(A0, j), j, Cols(A0), sg, rnd)

QRFactors(f) == [Q |-> transpose(f.q), R |-> transpose(f.r)]

qr(A0, sg, rnd) == QRFactors(QRColumns(A0, Cols(A0), sg, rnd))

(* scipy.linalg.solve_triangular(R, B): back substitution on the upper     *)
(* triangle of R; LAPACK's trtrs reports an exactly zero diagonal entry    *)
(* and scipy raises LinAlgError, nothing else is tested.                   *)
RECURSIVE RowTail(_, _, _, _)
RowTail(R, x, i, k) ==
    IF k > Rows(R) THEN Zero
    ELSE RAdd(RMul(R[i][k], x[k]), RowTail(R, x, i, k + 1))

BackSubPut(R, B, j, i, x) ==
    Vec(Rows(R), LAMBDA k :
        IF k = i THEN RDiv(RSub(B[i][j], RowTail(R, x, i, i + 1)), R[i][i]) ELSE x[k])

RECURSIVE BackSub(_, _, _, _)
BackSub(R, B, j, i) ==
    (* entries i..p of the solution's column j *)
    IF i > Rows(R) THEN Vec(Rows(R), LAMBDA k : Zero)
    ELSE BackSubPut(R, B, j, i, BackSub(R, B, j, i + 1))

solve_triangular(R, B) ==
    IF \E i \in 1..Rows(R) : R[i][i] = Zero
    THEN [ok |-> FALSE, X |-> <<>>]
    ELSE [ok |-> TRUE,
          X  |-> transpose(Vec(Cols(B), LAMBDA j : BackSub(R, B, j, 1)))]

(* the loop bounds of the next definition exchanged: the strict upper triangle *)
select_upper(M) ==
    Mat(Rows(M), Rows(M), LAMBDA i, j : IF i < j THEN M[i][j] ELSE Zero)

(* select_lower(M): the strict lower triangle of M in an (n, n) array *)
select_lower(M) ==
    Mat(Rows(M), Rows(M), LAMBDA i, j : IF j < i THEN M[i][j] ELSE Zero)

(* D = D - D.transpose() *)
MakeSkew(D) == MSub(D, transpose(D))

(* Stiefel_diff_QR(A0, V): the outcome of one call, line by line *)
QR_derivatives(Q, R, Rinv, QTV, D, V) ==
    [kind |-> "return",
     Q    |-> Q,
     dQ   |-> MAdd(dot(MSub(V, dot(Q, QTV)), Rinv), dot(Q, D)),
     R    |-> R,
     dR   |-> ZeroStrictLower(MSub(QTV, dot(D, R)))]

QR_helper(Q, R, Rinv, QTV, V) ==
    QR_derivatives(Q, R, Rinv, QTV, MakeSkew(select_lower(dot(QTV, Rinv))), V)

QR_inverted(Q, R, s, V) ==
    IF ~s.ok THEN [kind |-> "LinAlgError", Q |-> Q]
    ELSE QR_helper(Q, R, ZeroStrictLower(s.X), dot(transpose(Q), V), V)

QR_factored(f, V) ==
    QR_inverted(f.Q, f.R, solve_triangular(f.R, identity(Rows(f.R))), V)

Stiefel_diff_QR(A0, V, sg, rnd) == QR_factored(qr(A0, sg, rnd), V)

-----------------------------------------------------------------------------------------------------------------------------------------------------
(* diff_expm(M, dM): linalg.expm of the block matrix [[M, dM], [0, M]] is  *)
(* transcendental and stays an uninterpreted term; the two results are the *)
(* blocks picked from it, as index ranges [from, to) of rows and columns.  *)

Aux(M, dM, n) == [upper |-> <<M, dM>>, lower |-> <<zeros(n, n), M>>]

Block(X, rows, cols) == [of |-> X, rows |-> rows, cols |-> cols]

diff_expm(M, dM, n) ==
    [expM  |-> Block([expm |-> Aux(M, dM, n)], <<0, n>>, <<0, n>>),
     dexpM |-> Block([expm |-> Aux(M, dM, n)], <<0, n>>, <<n, 2 * n>>)]

-----------------------------------------------------------------------------
(* The metric parameter: w + t * 0.5e-10 with small integers w and t, so   *)
(* that the tolerance 1.0e-10 of the source is two of the small units.     *)

Sc(w, t) == [w |-> w, t |-> t]

ScNeg(a) == Sc(0 - a.w, 0 - a.t)

ScGt(a, b) == a.w > b.w \/ (a.w = b.w /\ a.t > b.t)

ScAbs(a) == IF ScGt(Sc(0, 0), a) THEN ScNeg(a) ELSE a

(* metric_alpha + 1.0 *)
PlusOne(a) == Sc(a.w + 1, a.t)

(* 1.0e-10 *)
Tol == Sc(0, 2)

Quot(a, b) == [num |-> a, den |-> b]

(* c * A for a scalar quotient c, kept as a product *)
Scaled(c, A) == [scale |-> c, mat |-> A]

(* 0.5 * (M - M.T) *)
Skew(M) == MScale(Half, MSub(M, transpose(M)))

MNeg(M) == MScale(<<-1, 1>>, M)

(* the test of line 204 taken for the one of line 212 *)
NeedsSecondary_both(alpha) ==
    ScGt(ScAbs(alpha), Tol) /\ ScGt(ScAbs(PlusOne(alpha)), Tol)

(* lines 204 and 212 of the source *)
NeedsSecondary(alpha) == ScGt(ScAbs(alpha), Tol)

GeneralMetric(alpha) ==
    ScGt(ScAbs(alpha), Tol) /\ ScGt(ScAbs(PlusOne(alpha)), Tol)

(* scipy.concatenate of the four blocks of M and of dM *)
BlockM(v, A0, R, p) ==
    [upper |-> <<Scaled(v, A0), MNeg(transpose(R))>>, lower |-> <<R, zeros(p, p)>>]

BlockSize(M) == Rows(M.lower[1]) + Rows(M.lower[2])

(* step 2: the two combinations, as sums of products of factors *)
GeneralCombination(U, Q, dQ, eI, dI, expA, dexpA, p) ==
    << <<dQ, Block(eI, <<p, 2 * p>>, <<0, p>>), expA>>,
       <<U,  Block(dI, <<0, p>>,     <<0, p>>), expA>>,
       <<Q,  Block(dI, <<p, 2 * p>>, <<0, p>>), expA>>,
       <<U,  Block(eI, <<0, p>>,     <<0, p>>), dexpA>>,
       <<Q,  Block(eI, <<p, 2 * p>>, <<0, p>>), dexpA>> >>

CanonicalCombination(U, Q, dQ, eI, dI, p) ==
    << <<dQ, Block(eI, <<p, 2 * p>>, <<0, p>>)>>,
       <<U,  Block(dI, <<0, p>>,     <<0, p>>)>>,
       <<Q,  Block(dI, <<p, 2 * p>>, <<0, p>>)>> >>

-----------------------------------------------------------------------------
(* Stiefel_diff_SVD(Y, dY, U, S, V), line by line.  S is a numpy vector:   *)
(* 1.0/S and the quotients of the Alpha_p loop divide by zero without      *)
(* raising.                                                                *)

MatVec(M, x) == Vec(Rows(M), LAMBDA i : VDot(M[i], x))

(* lines 265-269 *)
S_inv_of(S) == Vec(Len(S), LAMBDA k : RDiv(One, S[k]))

dS_of(U, dY, V, p) == Vec(p, LAMBDA k : VDot(Column(U, k), MatVec(dY, Column(V, k))))

(* lines 288-296: the upper triangle from the quotients, the lower one     *)
(* by antisymmetry, the diagonal left at zero                              *)
AlphaQuotient(S, C, j, k) ==
    RDiv(RAdd(RMul(S[j], C[j][k]), RMul(S[k], C[k][j])),
         RMul(RAdd(S[k], S[j]), RSub(S[k], S[j])))

(* the next definition without the statement that fills the lower triangle *)
Alpha_p_of_upper(S, C, p) ==
    Mat(p, p, LAMBDA j, k : IF j < k THEN AlphaQuotient(S, C, j, k) ELSE Zero)

Alpha_p_of(S, C, p) ==
    Mat(p, p, LAMBDA j, k :
        IF j < k THEN AlphaQuotient(S, C, j, k)
        ELSE IF k < j THEN RNeg(AlphaQuotient(S, C, k, j))
        ELSE Zero)

(* lines 303-308 *)
Alpha_mp_of(S, C, m, p) == Mat(m - p, p, LAMBDA j, k : RDiv(C[k][j], S[k]))

(* lines 299-310: the complement block only when V is square and m > p *)
HasFullV(V, p) == Rows(V) = Cols(V) /\ Rows(V) > p

dV_of(V, UTdY, S, Alpha_p, p, m) ==
    IF HasFullV(V, p)
    THEN MAdd(dot(ColSlice(V, 0, p), Alpha_p),
              dot(ColSlice(V, p, m),
                  Alpha_mp_of(S, dot(UTdY, ColSlice(V, p, m)), m, p)))
    ELSE dot(ColSlice(V, 0, p), Alpha_p)

(* the next definition without its diag(dS) term *)
X_of_no_dS(S, Alpha, dS, S_inv) == dot(dot(diag(S), Alpha), diag(S_inv))

(* line 315 *)
X_of(S, Alpha, dS, S_inv) == dot(MSub(dot(diag(S), Alpha), diag(dS)), diag(S_inv))

(* lines 317-319 *)
A_of(UTdYVSinv, X) == Skew(MAdd(UTdYVSinv, X))

SVD_results(U, dS, dYVSinv, Alpha, UTdYVSinv, dV, X) ==
    [kind   |-> "return",
     dU_bot |-> MSub(dYVSinv, dot(U, UTdYVSinv)),
     A      |-> A_of(UTdYVSinv, X),
     dU     |-> MAdd(dYVSinv, dot(U, X)),
     Alpha  |-> Alpha,
     dS     |-> dS,
     dV     |-> dV]

SVD_assembled(U, S, V, p, m, S_inv, UTdY, dS, dYVSinv, Alpha_p) ==
    SVD_results(U, dS, dYVSinv, Alpha_p, dot(transpose(U), dYVSinv),
                dV_of(V, UTdY, S, Alpha_p, p, m), X_of(S, Alpha_p, dS, S_inv))

SVD_prepared(dY, U, S, V, p, m, S_inv, UTdY) ==
    SVD_assembled(U, S, V, p, m, S_inv, UTdY,
                  dS_of(U, dY, V, p),
                  dot(dY, dot(ColSlice(V, 0, p), diag(S_inv))),
                  Alpha_p_of(S, dot(UTdY, ColSlice(V, 0, p)), p))

Stiefel_diff_SVD(dY, U, S, V) ==
    SVD_prepared(dY, U, S, V, Cols(U), Rows(V), S_inv_of(S), dot(transpose(U), dY))

-----
(* The caller: one call at a time.  inp holds the arguments as passed, mem *)
(* the contents of the caller's arrays now, out the outcome of the call    *)
(* (what is returned or raised, and which returned arrays share storage    *)
(* with an argument), calls the routines of this file entered so far, loc  *)
(* the locals of a Stiefel_diff_exp in progress.                           *)

MaxV == 1

(* directions: the zero matrix, and the multiples up to MaxV of the unit   *)
(* matrices, of the matrix of ones and of a matrix of mixed signs          *)
Patterns(n, p) ==
    { Mat(n, p, LAMBDA i, j : IF i = a /\ j = b THEN One ELSE Zero) :
          a \in 1..n, b \in 1..p }
    \cup { Mat(n, p, LAMBDA i, j : One),
           Mat(n, p, LAMBDA i, j : Rat(IF (i + j) % 2 = 0 THEN i ELSE 0 - j)) }

Dirs(n, p) ==
    { MScale(Rat(k), E) : k \in 1..MaxV, E \in Patterns(n, p) } \cup { zeros(n, p) }

Signs(p) == [1..p -> {1, -1}]

IntMat(M) == Mat(Len(M), Len(M[1]), LAMBDA i, j : Rat(M[i][j]))

(* base points A0 whose thin QR factors are rational: full column rank,    *)
(* a zero column, a repeated column direction                              *)
QRBases ==
    { IntMat(<< <<3>>, <<4>> >>),
      IntMat(<< <<3, 1>>, <<4, 2>> >>),
      IntMat(<< <<0, -1>>, <<2, 1>> >>),
      IntMat(<< <<3, 0>>, <<4, 0>>, <<0, 2>> >>),
      IntMat(<< <<2, 3>>, <<1, 3>>, <<2, 0>> >>),
      IntMat(<< <<1, 0>>, <<0, 0>>, <<0, 0>> >>),
      IntMat(<< <<0, 3>>, <<0, 4>> >>),
      IntMat(<< <<3, -3>>, <<4, -4>>, <<0, 0>> >>),
      IntMat(<< <<1, 2>>, <<0, 0>> >>) }

Raised(kind) == [kind |-> kind, shares |-> {}]

NoCall == [fn |-> "none"]
NoOutcome == [kind |-> "none"]

Init ==
    /\ pc = "idle"
    /\ inp = NoCall
    /\ mem = NoCall
    /\ out = NoOutcome
    /\ calls = <<>>
    /\ loc = NoCall

(* linalg.qr(A0, overwrite_a=True): LAPACK factors a Fortran-ordered       *)
(* float64 array in place and scipy builds Q in the same buffer; an array  *)
(* in any other layout is copied first.                                    *)
qr_overwrite(A0, order, Q) == IF order = "F" THEN Q ELSE A0

qr_shares(order) == IF order = "F" THEN {<<"Q", "A0">>} ELSE {}

CallQR ==
    /\ pc = "idle"
    /\ \E A0 \in QRBases, rnd \in BOOLEAN :
         \E V \in Dirs(Rows(A0), Cols(A0)), sg \in Signs(Cols(A0)) :
           LET r == Stiefel_diff_QR(A0, V, sg, rnd)
           IN  \E order \in {"C", "F"} :
               /\ inp' = [fn |-> "Stiefel_diff_QR", A0 |-> A0, V |-> V, order |-> order]
               /\ mem' = [fn |-> "Stiefel_diff_QR",
                          A0 |-> qr_overwrite(A0, order, r.Q), V |-> V, order |-> order]
               /\ out' = IF r.kind = "return"
                          THEN [shares |-> qr_shares(order)] @@ r
                          ELSE Raised(r.kind)
    /\ pc' = "returned"
    /\ calls' = <<>>
    /\ UNCHANGED loc

Return ==
    /\ pc = "returned"
    /\ pc' = "idle"
    /\ inp' = NoCall
    /\ mem' = NoCall
    /\ out' = NoOutcome
    /\ calls' = <<>>
    /\ loc' = NoCall

-----------------------------------------------------------------------------
(* Stiefel_diff_exp(U, Delta, V, metric_alpha), statement by statement     *)

MaxAlpha == 1

TinyOffsets == {-1, 0, 2, 3}

Alphas == { Sc(w, t) : w \in (-2)..MaxAlpha, t \in TinyOffsets }

ExpFrames ==
    { IntMat(<< <<1>>, <<0>> >>),
      IntMat(<< <<1, 0>>, <<0, 1>>, <<0, 0>>, <<0, 0>> >>) }

(* tangent directions Delta whose normal part X0 has rational QR factors:  *)
(* genuine tangents, one with U^T Delta not skew, ones with X0 singular    *)
ExpTangents(U) ==
    IF Cols(U) = 1
    THEN { IntMat(<< <<0>>, <<1>> >>),
           IntMat(<< <<3>>, <<4>> >>),
           IntMat(<< <<0>>, <<0>> >>) }
    ELSE { IntMat(<< <<0, -1>>, <<1, 0>>, <<2, 0>>, <<0, 1>> >>),
           IntMat(<< <<0, -2>>, <<2, 0>>, <<3, 0>>, <<4, 1>> >>),
           IntMat(<< <<0, -1>>, <<1, 0>>, <<3, 6>>, <<4, 8>> >>),
           IntMat(<< <<0, -1>>, <<1, 0>>, <<0, 0>>, <<0, 0>> >>) }

(* lines 164-172 *)
Projected(U, Delta, V, A0, dA0) ==
    [fn  |-> "Stiefel_diff_exp",
     A0  |-> A0,
     X0  |-> MSub(Delta, dot(U, A0)),
     dA0 |-> dA0,
     Y0  |-> MSub(V, dot(U, dA0))]

Projection(U, Delta, V) ==
    Projected(U, Delta, V, Skew(dot(transpose(U), Delta)), Skew(dot(transpose(U), V)))

CallExp ==
    /\ pc = "idle"
    /\ \E U \in ExpFrames, alpha \in Alphas :
         \E Delta \in ExpTangents(U), V \in Dirs(Rows(U), Cols(U)) :
           /\ inp' = [fn |-> "Stiefel_diff_exp", U |-> U, Delta |-> Delta, V |-> V,
                      metric_alpha |-> alpha]
           /\ mem' = inp'
           /\ loc' = Projection(U, Delta, V)
    /\ pc' = "exp_qr"
    /\ calls' = <<>>
    /\ UNCHANGED out

(* line 175: Q, dQ, R, dR = Stiefel_diff_QR(X0, Y0); X0 is a fresh array   *)
(* in C order, which linalg.qr copies                                      *)
ExpQR ==
    /\ pc = "exp_qr"
    /\ \E sg \in Signs(Cols(loc.X0)), rnd \in BOOLEAN :
         LET r == Stiefel_diff_QR(loc.X0, loc.Y0, sg, rnd)
         IN  IF r.kind = "return"
             THEN /\ loc' = [Q |-> r.Q, dQ |-> r.dQ, R |-> r.R, dR |-> r.dR] @@ loc
                  /\ pc' = "exp_block"
                  /\ UNCHANGED out
             ELSE /\ out' = Raised(r.kind)
                  /\ pc' = "returned"
                  /\ UNCHANGED loc
    /\ calls' = Append(calls, [fn |-> "Stiefel_diff_QR", A0 |-> loc.X0, V |-> loc.Y0])
    /\ UNCHANGED <<inp, mem>>

(* lines 183-200: v = 1.0/(metric_alpha + 1.0) raises ZeroDivisionError on *)
(* a Python float -1.0; then M, dM and the first diff_expm                 *)
BlockStep(l, v, M, dM, p) ==
    [v         |-> v,
     M         |-> M,
     dM        |-> dM,
     expM_I_0  |-> Block(diff_expm(M, dM, 2 * p).expM,  <<0, 2 * p>>, <<0, p>>),
     dexpM_I_0 |-> Block(diff_expm(M, dM, 2 * p).dexpM, <<0, 2 * p>>, <<0, p>>)] @@ l

ExpBlock ==
    /\ pc = "exp_block"
    /\ IF PlusOne(inp.metric_alpha) = Sc(0, 0)
       THEN /\ out' = Raised("ZeroDivisionError")
            /\ pc' = "returned"
            /\ UNCHANGED <<loc, calls>>
       ELSE LET v  == Quot(Sc(1, 0), PlusOne(inp.metric_alpha))
                p  == Cols(inp.U)
                M  == BlockM(v, loc.A0, loc.R, p)
                dM == BlockM(v, loc.dA0, loc.dR, p)
            IN  /\ loc' = BlockStep(loc, v, M, dM, p)
                /\ calls' = Append(calls, [fn |-> "diff_expm", M |-> M, dM |-> dM])
                /\ pc' = "exp_secondary"
                /\ UNCHANGED out
    /\ UNCHANGED <<inp, mem>>

(* lines 204-206 *)
ExpSecondary ==
    /\ pc = "exp_secondary"
    /\ IF NeedsSecondary(inp.metric_alpha)
       THEN LET mu == Quot(inp.metric_alpha, PlusOne(inp.metric_alpha))
                e  == diff_expm(Scaled(mu, loc.A0), Scaled(mu, loc.dA0), Cols(inp.U))
            IN  /\ loc' = [mu |-> mu, expA |-> e.expM, dexpA |-> e.dexpM] @@ loc
                /\ calls' = Append(calls, [fn |-> "diff_expm",
                                           M  |-> Scaled(mu, loc.A0),
                                           dM |-> Scaled(mu, loc.dA0)])
       ELSE UNCHANGED <<loc, calls>>
    /\ pc' = "exp_combine"
    /\ UNCHANGED <<inp, mem, out>>

(* lines 212-231; reading a local that was never assigned raises           *)
(* UnboundLocalError                                                       *)
ExpCombine ==
    /\ pc = "exp_combine"
    /\ out' = IF GeneralMetric(inp.metric_alpha)
              THEN IF {"expA", "dexpA"} \subseteq DOMAIN loc
                   THEN [kind    |-> "return",
                         dSt_Exp |-> GeneralCombination(inp.U, loc.Q, loc.dQ,
                                         loc.expM_I_0, loc.dexpM_I_0,
                                         loc.expA, loc.dexpA, Cols(inp.U)),
                         shares  |-> {}]
                   ELSE Raised("UnboundLocalError")
              ELSE [kind    |-> "return",
                    dSt_Exp |-> CanonicalCombination(inp.U, loc.Q, loc.dQ,
                                    loc.expM_I_0, loc.dexpM_I_0, Cols(inp.U)),
                    shares  |-> {}]
    /\ pc' = "returned"
    /\ UNCHANGED <<inp, mem, calls, loc>>

(* a direct call of diff_expm(M, dM) *)
CallExpm ==
    /\ pc = "idle"
    /\ \E U \in ExpFrames :
         \E M \in Dirs(Cols(U), Cols(U)), dM \in Dirs(Cols(U), Cols(U)) :
           /\ inp' = [fn |-> "diff_expm", M |-> M, dM |-> dM]
           /\ mem' = inp'
           /\ out' = [kind |-> "return", shares |-> {}] @@ diff_expm(M, dM, Rows(M))
    /\ pc' = "returned"
    /\ calls' = <<>>
    /\ UNCHANGED loc

NextExp == CallExp \/ ExpQR \/ ExpBlock \/ ExpSecondary \/ ExpCombine \/ CallExpm \/ Return

SpecExp == Init /\ [][NextExp]_vars

-----------------------------------------------------------------------------
(* calls of Stiefel_diff_SVD *)

MaxS == 3

RatMat(M) == Mat(Len(M), Len(M[1]), LAMBDA i, j : M[i][j])

Rot == RatMat(<< << <<3, 5>>, <<-4, 5>> >>, << <<4, 5>>, <<3, 5>> >> >>)

(* the factors U (n x p, orthonormal columns) and V: square with m = p,    *)
(* square with m > p, and thin (m x p) with m > p                          *)
SVDFactors ==
    { [U |-> Rot, V |-> Rot],
      [U |-> IntMat(<< <<1, 0>>, <<0, 1>>, <<0, 0>> >>),
       V |-> IntMat(<< <<0, 1>>, <<1, 0>> >>)],
      [U |-> RatMat(<< << <<3, 5>>, Zero >>, << <<4, 5>>, Zero >>, << Zero, One >> >>),
       V |-> Rot],
      [U |-> IntMat(<< <<1>>, <<0>> >>), V |-> identity(2)],
      [U |-> RatMat(<< << <<3, 5>> >>, << <<4, 5>> >> >>), V |-> Rot],
      [U |-> IntMat(<< <<1>> >>), V |-> Rot],
      [U |-> Rot, V |-> IntMat(<< <<0, 1, 0>>, <<0, 0, 1>>, <<1, 0, 0>> >>)],
      [U |-> IntMat(<< <<1>>, <<0>> >>), V |-> IntMat(<< <<1>>, <<0>> >>)],
      [U |-> IntMat(<< <<0>>, <<1>> >>), V |-> RatMat(<< << <<3, 5>> >>, << <<4, 5>> >> >>)] }

SingularValues(p) == { Vec(p, LAMBDA k : Rat(s[k])) : s \in [1..p -> 1..MaxS] }

(* Y = U diag(S) V_p^T, the matrix whose factors are passed *)
Y_of(U, S, V) == dot(U, dot(diag(S), transpose(ColSlice(V, 0, Cols(U)))))

CallSVD ==
    /\ pc = "idle"
    /\ \E f \in SVDFactors :
         \E S \in SingularValues(Cols(f.U)), dY \in Dirs(Rows(f.U), Rows(f.V)) :
           /\ inp' = [fn |-> "Stiefel_diff_SVD", Y |-> Y_of(f.U, S, f.V), dY |-> dY,
                      U |-> f.U, S |-> S, V |-> f.V]
           /\ mem' = inp'
           /\ out' = [shares |-> {}] @@ Stiefel_diff_SVD(dY, f.U, S, f.V)
    /\ pc' = "returned"
    /\ calls' = <<>>
    /\ UNCHANGED loc

NextSVD == CallSVD \/ Return

SpecSVD == Init /\ [][NextSVD]_vars

NextQR == CallQR \/ Return

SpecQR == Init /\ [][NextQR]_vars

Next ==
    CallQR \/ CallExpm \/ CallSVD \/ CallExp \/ ExpQR \/ ExpBlock \/ ExpSecondary
        \/ ExpCombine \/ Return

Spec == Init /\ [][Next]_vars

-----------------------------------------------------------------------------
(* Notions the properties are stated with                                  *)

Minor(M, c) ==
    Mat(Rows(M) - 1, Cols(M) - 1, LAMBDA i, j : M[i + 1][IF j < c THEN j ELSE j + 1])

RECURSIVE Det(_)
RECURSIVE Laplace(_, _)
Laplace(M, c) ==
    IF c = 0 THEN Zero
    ELSE RAdd(Laplace(M, c - 1),
              RMul(RMul(Rat(IF c % 2 = 1 THEN 1 ELSE -1), M[1][c]), Det(Minor(M, c))))

Det(M) == IF Rows(M) = 1 THEN M[1][1] ELSE Laplace(M, Cols(M))

(* the Gram matrix A0^T A0 is regular *)
FullColumnRank(A0) == Det(dot(transpose(A0), A0)) # Zero

Orthonormal(U) == dot(transpose(U), U) = identity(Cols(U))

Positive(S) == \A k \in 1..Len(S) : IsFinite(S[k]) /\ S[k][1] > 0

PairwiseDistinct(S) == \A j \in 1..Len(S) : \A k \in 1..Len(S) : j # k => S[j] # S[k]

Returned(fn) == pc = "returned" /\ inp.fn = fn

-----------------------------------------------------------------------------
(* Stiefel_diff_QR *)

(* C1: for a base point A0 of full column rank and any V of its shape, the *)
(* call returns Q, dQ, R, dR with dQ R + Q dR = V and dR upper triangular. *)
QRReconstruction ==
    (Returned("Stiefel_diff_QR") /\ FullColumnRank(inp.A0)) =>
        /\ out.kind = "return"
        /\ MAdd(dot(out.dQ, out.R), dot(out.Q, out.dR)) = inp.V
        /\ IsUpperTriangular(out.dR)

QRReconstructionWitness ==
    /\ Returned("Stiefel_diff_QR")
    /\ FullColumnRank(inp.A0)
    /\ Rows(inp.A0) = 3
    /\ out.kind = "return"
    /\ out.dR # zeros(2, 2)
    /\ ~IsUpperTriangular(dot(transpose(out.Q), out.dQ))

(* C5: a call whose A0 is not of full column rank (a zero column, two      *)
(* columns of one direction) ends in the singular-factor error and returns *)
(* nothing.                                                                *)
QRRejectsRankDeficiency ==
    (Returned("Stiefel_diff_QR") /\ ~FullColumnRank(inp.A0)) => out.kind = "LinAlgError"

(* C6: after a call every array passed by the caller holds what it held    *)
(* before, and no returned array shares storage with an argument.          *)
ArgumentsUntouched ==
    pc = "returned" => (mem = inp /\ out.shares = {})

-----------------------------------------------------------------------------
(* Stiefel_diff_exp *)

(* metric_alpha <= -1, or within 1.0e-10 of -1 *)
InvalidAlpha(alpha) ==
    ~ScGt(alpha, Sc(-1, 0)) \/ ~ScGt(ScAbs(PlusOne(alpha)), Tol)

(* C3: a call with metric_alpha <= -1 or within 1.0e-10 of -1 ends in an   *)
(* error and returns no dSt_Exp, by neither combination (any exception is  *)
(* taken for the invalid-metric-parameter error here).                     *)
InvalidAlphaRejected ==
    (Returned("Stiefel_diff_exp") /\ InvalidAlpha(inp.metric_alpha)) => out.kind # "return"

(* C9: a call enters Stiefel_diff_QR first and once, then diff_expm on the *)
(* 2p x 2p pair (M, dM), then diff_expm on (mu A0, mu dA0) with            *)
(* mu = alpha/(alpha+1); a call that returns has made the last one exactly *)
(* when |alpha| > 1.0e-10.                                                 *)
ExpCallOrder ==
    inp.fn = "Stiefel_diff_exp" =>
        /\ Len(calls) <= 3
        /\ \A i \in 1..Len(calls) :
             calls[i].fn = IF i = 1 THEN "Stiefel_diff_QR" ELSE "diff_expm"
        /\ Len(calls) >= 1 => (calls[1].A0 = loc.X0 /\ calls[1].V = loc.Y0)
        /\ Len(calls) >= 2 =>
             /\ BlockSize(calls[2].M) = 2 * Cols(inp.U)
             /\ BlockSize(calls[2].dM) = 2 * Cols(inp.U)
             /\ calls[2].M.lower[1] = loc.R
             /\ calls[2].dM.lower[1] = loc.dR
        /\ Len(calls) = 3 =>
             /\ calls[3].M = Scaled(Quot(inp.metric_alpha, PlusOne(inp.metric_alpha)), loc.A0)
             /\ calls[3].dM = Scaled(Quot(inp.metric_alpha, PlusOne(inp.metric_alpha)), loc.dA0)
        /\ (pc = "returned" /\ out.kind = "return") =>
             Len(calls) = IF ScGt(ScAbs(inp.metric_alpha), Tol) THEN 3 ELSE 2

ExpCallOrderWitness ==
    /\ Returned("Stiefel_diff_exp")
    /\ out.kind = "return"
    /\ Len(calls) = 3
    /\ Len(out.dSt_Exp) = 3
    /\ Cols(inp.U) = 2
    /\ loc.A0 # zeros(2, 2)

(* C10: the five-term combination is used exactly when |alpha| > 1.0e-10   *)
(* and |alpha+1| > 1.0e-10, with expA and dexpA assigned before, the       *)
(* three-term one otherwise, and the three-term one only for the canonical *)
(* metric, |alpha| <= 1.0e-10.                                             *)
CombinationRule ==
    (Returned("Stiefel_diff_exp") /\ out.kind # "LinAlgError") =>
        /\ out.kind # "UnboundLocalError"
        /\ out.kind = "return" =>
             /\ Len(out.dSt_Exp) = IF GeneralMetric(inp.metric_alpha) THEN 5 ELSE 3
             /\ Len(out.dSt_Exp) = 5 => {"expA", "dexpA"} \subseteq DOMAIN loc
             /\ Len(out.dSt_Exp) = 3 => ~ScGt(ScAbs(inp.metric_alpha), Tol)

-----------------------------------------------------------------------------
(* Stiefel_diff_SVD *)

V_p == ColSlice(inp.V, 0, Cols(inp.U))

(* dU diag(S) V_p^T + U diag(dS) V_p^T + U diag(S) dV^T *)
Reconstruction ==
    MAdd(MAdd(dot(out.dU, dot(diag(inp.S), transpose(V_p))),
              dot(inp.U, dot(diag(out.dS), transpose(V_p)))),
         dot(inp.U, dot(diag(inp.S), transpose(out.dV))))

(* the part of dY V[:, p:m] outside the range of U *)
ComplementResidual(W) == MSub(W, dot(inp.U, dot(transpose(inp.U), W)))

RankPreserving ==
    HasFullV(inp.V, Cols(inp.U)) =>
        ComplementResidual(dot(inp.dY, ColSlice(inp.V, Cols(inp.U), Rows(inp.V))))
            = zeros(Rows(inp.U), Rows(inp.V) - Cols(inp.U))

SVDCase ==
    /\ Returned("Stiefel_diff_SVD")
    /\ Orthonormal(inp.U)
    /\ Positive(inp.S) /\ PairwiseDistinct(inp.S)
    /\ Rows(inp.V) = Cols(inp.V)
    /\ Orthonormal(inp.V)

(* C2 as stated: with orthonormal U, positive pairwise distinct S and the  *)
(* square orthogonal V (m = p or m > p), the reconstruction equals dY for  *)
(* any dY.                                                                 *)
SVDReconstructionAnyDirection ==
    SVDCase => (out.kind = "return" /\ Reconstruction = inp.dY)

(* C2: the same for every dY when m = p, and when m > p for the dY with    *)
(* (I - U U^T) dY V[:, p:m] = 0, the directions of a curve of rank p.      *)
SVDReconstruction ==
    (SVDCase /\ RankPreserving) => (out.kind = "return" /\ Reconstruction = inp.dY)

SVDReconstructionWitness ==
    /\ SVDCase
    /\ RankPreserving
    /\ HasFullV(inp.V, Cols(inp.U))
    /\ Rows(inp.U) > Cols(inp.U)
    /\ out.dV # zeros(Rows(inp.V), Cols(inp.U))

(* two singular values that coincide; the model's values are integers, so  *)
(* a distance below 1.0e-12 is a distance of zero                          *)
Coincident(S) == ~PairwiseDistinct(S)

(* C4: a call with two coinciding singular values ends in an error (taken *)
(* for the near-degenerate-spectrum error) and returns nothing; no         *)
(* quotient over (S[k]+S[j])(S[k]-S[j]) = 0 reaches a result.              *)
DegenerateSpectrumRejected ==
    (Returned("Stiefel_diff_SVD") /\ Coincident(inp.S)) => out.kind # "return"

CompleteResult == {"kind", "shares", "dU_bot", "A", "dU", "Alpha", "dS", "dV"}

(* C7: with a thin V (m x p, m > p) the outcome is marked as partial: it   *)
(* is not a plain return of the six arrays a call with the full V returns. *)
PartialDerivativeFlagged ==
    (Returned("Stiefel_diff_SVD") /\ Rows(inp.V) > Cols(inp.V)) =>
        (out.kind # "return" \/ DOMAIN out # CompleteResult)

(* C8: for positive pairwise distinct S the returned Alpha and A are skew  *)
(* (zero diagonal, mirrored entries of opposite sign), with the thin and   *)
(* with the full V.                                                        *)
SVDSkewOutputs ==
    (Returned("Stiefel_diff_SVD") /\ Positive(inp.S) /\ PairwiseDistinct(inp.S)) =>
        /\ out.kind = "return"
        /\ IsSkew(out.Alpha) /\ Rows(out.Alpha) = Cols(inp.U)
        /\ IsSkew(out.A) /\ Rows(out.A) = Cols(inp.U)

SVDSkewOutputsWitness ==
    /\ Returned("Stiefel_diff_SVD")
    /\ Positive(inp.S) /\ PairwiseDistinct(inp.S)
    /\ HasFullV(inp.V, Cols(inp.U))
    /\ Cols(inp.U) = 2
    /\ out.Alpha # zeros(2, 2)
    /\ out.A # zeros(2, 2)

====
